---- MODULE Spec2Model ----
(***************************************************************************)
(* Health and Economy Dashboard: the cleaning stage, the transform stages, *)
(* the normalization stage, the correlation stage, the prediction stage    *)
(* (training, model store, inference) and the script run of the dashboard. *)
(*                                                                         *)
(* Six specifications share the module:                                    *)
(*   SpecClean        clean_data called on a caller's value                *)
(*   SpecTransform    transform_health_data or transform_economic_data     *)
(*                    called on a raw table                                *)
(*   SpecNormalize    normalize_data called on a caller's table            *)
(*   SpecCorrelation  calculate_correlation called on two tables           *)
(*   SpecFailSoft     one of the stages after clean_data called on a       *)
(*                    table that may be empty                              *)
(*   Spec             runs of the app.py script over the model store       *)
(***************************************************************************)
EXTENDS Integers, Sequences, FiniteSets, TLC

VARIABLES
    \* ---- normalize_data (SpecNormalize)
    df,            \* the caller's DataFrame object: column name -> sequence of cells
    columns,       \* the requested column list
    dfBefore,      \* the cells df held when the call was made (history)
    normOut,       \* the DataFrame the call returned
    npc,           \* "start" | "returned"
    \* ---- calculate_correlation (SpecCorrelation)
    health_df,     \* the health table handed to calculate_correlation
    economic_df,   \* the economic table handed to calculate_correlation
    health_indicator, \* the health_col argument of the call
    econ_indicator,   \* the econ_col argument of the call
    merged,        \* the joined rows calculate_correlation held when it returned
    correlation,   \* what calculate_correlation returned
    cpc,           \* "start" | "returned"
    \* ---- app.py script run over the persisted models (Spec)
    store,         \* indicator code -> persisted model artifact or NoModel
    trainSeq,      \* number of models fitted so far (identifies an artifact)
    trainedCodes,  \* the codes for which a training call returned (rmse, r2) (history)
    health_filtered,              \* None or the filtered health table of this run
    prediction_economic_filtered, \* None or the filtered economic table of this run
    code,          \* prediction_economic_indicator_code of this run
    model,         \* what load_model returned in this run
    trainResult,   \* "not_called" | "ok" | "failed": train_economic_model in this run
    storeBefore,   \* the store when this run's training call was made (history)
    predictCall,   \* "not_called" | "well_formed" | "malformed": input of predict_economic_indicator
    sidebar,       \* the set of messages this run wrote to the sidebar
    pc,            \* position of the script run
    \* ---- transform_health_data, transform_economic_data (SpecTransform)
    tkind,         \* "health" | "economic": which transform is called
    tin,           \* the caller's raw table
    tinBefore,     \* the raw table when the call was made (history)
    tout,          \* how the call ended: the table returned, the error surfaced
    tpc,           \* "start" | "returned"
    \* ---- clean_data (SpecClean)
    raw,           \* the value handed to clean_data
    cleaned,       \* how the call ended: the table returned, the error surfaced
    kfailed,       \* whether a step of the try block raised (history)
    kpc            \* "start" | "returned"

nvars == <<df, columns, dfBefore, normOut, npc>>
cvars == <<health_df, economic_df, health_indicator, econ_indicator, merged, correlation, cpc>>
avars == <<store, trainSeq, trainedCodes, health_filtered, prediction_economic_filtered, code,
           model, trainResult, storeBefore, predictCall, sidebar, pc>>
tvars == <<tkind, tin, tinBefore, tout, tpc>>
kvars == <<raw, cleaned, kfailed, kpc>>
vars == <<nvars, cvars, avars, tvars, kvars>>

(***************************************************************************)
(* Bounds of the model.                                                    *)
(***************************************************************************)
\* rows of a table handed to normalize_data
MaxRows == 4
\* rows of a health or economic table handed to the correlation and prediction stages
MaxTableRows == 3
\* models fitted over all the runs of the script
MaxTrainings == 2
\* records (daily health records, economic observations) of a raw table
MaxRecords == 3
\* rows of a table handed to clean_data
MaxCleanRows == 2
\* significand bits of the binary floating-point format of the model
PrecisionBits == 3

(***************************************************************************)
(* Cells.  A numeric cell is a binary floating-point number; the model     *)
(* keeps the format of float64 (round to nearest, ties to even, gradual    *)
(* underflow) with a significand of PrecisionBits bits, and writes a value *)
(* as its count of units of the smallest step, One units making 1.0.       *)
(* Values are non-negative and far from overflow.  NaN is the missing cell.*)
(***************************************************************************)
NaN == -1
One == 2 ^ PrecisionBits

RECURSIVE QuantumFrom(_, _, _)
QuantumFrom(n, d, q) ==
    IF n < d * (2 ^ PrecisionBits) * q THEN q ELSE QuantumFrom(n, d, 2 * q)

\* the representable number nearest to n / d (d > 0, n >= 0), ties to even
Round(n, d) ==
    LET q == QuantumFrom(n, d, 1)
        k == n \div (d * q)
        r == n % (d * q)
    IN  IF 2 * r < d * q THEN k * q
        ELSE IF 2 * r > d * q THEN (k + 1) * q
        ELSE IF k % 2 = 0 THEN k * q ELSE (k + 1) * q

FAdd(a, b) == Round(a + b, 1)
FSub(a, b) == Round(a - b, 1)
\* a / b as a number, One units making 1.0
FDiv(a, b) == Round(a * One, b)

\* Series.isna
IsNa(x) == x = NaN

\* the non-missing cells of a column, in row order
RECURSIVE DropNa(_)
DropNa(s) ==
    IF s = <<>> THEN <<>>
    ELSE IF IsNa(Head(s)) THEN DropNa(Tail(s))
    ELSE <<Head(s)>> \o DropNa(Tail(s))

\* the floating-point sum of a sequence of numbers, left to right
RECURSIVE FSum(_)
FSum(s) == IF s = <<>> THEN 0 ELSE FAdd(FSum(SubSeq(s, 1, Len(s) - 1)), s[Len(s)])

\* Series.mean: missing cells are skipped; NaN when nothing is left
SeriesMean(s) ==
    LET p == DropNa(s) IN IF p = <<>> THEN NaN ELSE Round(FSum(p), Len(p))

\* Series.fillna(v): filling with NaN changes nothing
FillNa(s, v) == [i \in 1..Len(s) |-> IF IsNa(s[i]) THEN v ELSE s[i]]

SetMin(S) == CHOOSE x \in S : \A y \in S : x <= y
SetMax(S) == CHOOSE x \in S : \A y \in S : x >= y
Present(s) == {s[i] : i \in {j \in 1..Len(s) : ~IsNa(s[j])}}
\* Series.min / Series.max: missing cells are skipped; NaN when nothing is left
SeriesMin(s) == IF Present(s) = {} THEN NaN ELSE SetMin(Present(s))
SeriesMax(s) == IF Present(s) = {} THEN NaN ELSE SetMax(Present(s))

(***************************************************************************)
(* normalize_data: the body of the loop for one column that is present.    *)
(***************************************************************************)
NormalizeColumnFillZero(s) ==
    LET filled  == FillNa(s, 0)
        min_val == SeriesMin(filled)
        max_val == SeriesMax(filled)
    IN  IF ~IsNa(min_val) /\ ~IsNa(max_val) /\ FSub(max_val, min_val) # 0
        THEN [i \in 1..Len(s) |-> FDiv(FSub(filled[i], min_val), FSub(max_val, min_val))]
        ELSE [i \in 1..Len(s) |-> 0]
NormalizeColumnByMax(s) ==
    LET filled  == FillNa(s, SeriesMean(s))
        min_val == SeriesMin(filled)
        max_val == SeriesMax(filled)
    IN  IF ~IsNa(min_val) /\ ~IsNa(max_val) /\ FSub(max_val, min_val) # 0
        THEN [i \in 1..Len(s) |-> FDiv(filled[i], max_val)]
        ELSE [i \in 1..Len(s) |-> 0]
NormalizeColumn(s) ==
    LET filled  == FillNa(s, SeriesMean(s))
        min_val == SeriesMin(filled)
        max_val == SeriesMax(filled)
    IN  IF ~IsNa(min_val) /\ ~IsNa(max_val) /\ FSub(max_val, min_val) # 0
        THEN [i \in 1..Len(s) |-> FDiv(FSub(filled[i], min_val), FSub(max_val, min_val))]
        ELSE [i \in 1..Len(s) |-> 0]

\* one pass of `for column in columns`: a column that is not in the table is skipped
NormalizeStep(t, column) ==
    IF column \in DOMAIN t
    THEN [t EXCEPT ![column] = NormalizeColumn(t[column])]
    ELSE t

\* normalize_data(df, columns): the table df holds when the call returns
RECURSIVE NormalizeDataBreak(_, _)
NormalizeDataBreak(t, cols) ==
    IF cols = <<>> \/ Head(cols) \notin DOMAIN t THEN t
    ELSE NormalizeDataBreak(NormalizeStep(t, Head(cols)), Tail(cols))
RECURSIVE NormalizeData(_, _)
NormalizeData(t, cols) ==
    IF cols = <<>> THEN t
    ELSE NormalizeData(NormalizeStep(t, Head(cols)), Tail(cols))

(***************************************************************************)
(* Tables of the correlation and prediction stages.  A table has a set of  *)
(* column names and a set of rows; a row holds the entity key iso_code,    *)
(* the Year and the cell val of the table's indicator column (the health   *)
(* indicator of a health table, 'value' of an economic table).  The        *)
(* transform stages group by (key, Year), so no two rows share both.       *)
(***************************************************************************)
\* the Python None where a table is expected
NoTable == [cols |-> {"None"}, rows |-> {}]
\* pd.DataFrame(): no columns, no rows
EmptyFrame == [cols |-> {}, rows |-> {}]
IsoCodes == {"USA", "IND"}
Years == {2020, 2021}
Keys == IsoCodes \X Years
RowSets(vals) ==
    UNION {{{[iso_code |-> k[1], Year |-> k[2], val |-> f[k]] : k \in K} : f \in [K -> vals]}
           : K \in {S \in SUBSET Keys : Cardinality(S) <= MaxTableRows}}
HealthColumns == {"iso_code", "Year", "new_cases"}
EconomicColumns == {"iso_code", "Year", "value"}
HealthTables(vals) == {[cols |-> HealthColumns, rows |-> R] : R \in RowSets(vals)}
EconomicTables(vals) == {[cols |-> EconomicColumns, rows |-> R] : R \in RowSets(vals)}

(***************************************************************************)
(* calculate_correlation                                                   *)
(***************************************************************************)
\* the results: None, the float NaN, or a coefficient cov / sqrt(vx * vy)
None == [kind |-> "None", cov |-> 0, vx |-> 0, vy |-> 0]
NaNResult == [kind |-> "NaN", cov |-> 0, vx |-> 0, vy |-> 0]
NotReturned == [kind |-> "not_returned", cov |-> 0, vx |-> 0, vy |-> 0]

\* pd.merge(health_df, economic_df, on='Year', how='inner'): pairs of rows
MergeOnEntityAndYear(h, e) ==
    {<<x, y>> \in h.rows \X e.rows : x.Year = y.Year /\ x.iso_code = y.iso_code}
\* merge(..., how='left'): the rows of the first table without a partner are
\* kept, with missing cells for the second table
MergeOnYearLeft(h, e) ==
    {<<x, y>> \in h.rows \X e.rows : x.Year = y.Year}
    \cup {<<x, [iso_code |-> "NaN", Year |-> x.Year, val |-> NaN]>> :
              x \in {z \in h.rows : \A y \in e.rows : y.Year # z.Year}}
MergeOnYear(h, e) == {<<x, y>> \in h.rows \X e.rows : x.Year = y.Year}

\* the names the merged frame gives the columns: a column of both tables
\* other than the join key gets the suffixes
MergedColumns(h, e, on) ==
    on \cup ((h.cols \cup e.cols) \ (h.cols \cap e.cols))
       \cup {c \o "_health" : c \in (h.cols \cap e.cols) \ on}
       \cup {c \o "_econ" : c \in (h.cols \cap e.cols) \ on}

\* merged[col]: the side of the joined row that holds column col, 1 for a
\* column of the first table and 2 for a column of the second (the indicator
\* columns are not suffixed: each is a column of one table only)
Side(h, e, col) == IF col \in h.cols THEN 1 ELSE 2

\* merged.dropna(subset=[health_col, econ_col]); sx and sy are the sides of
\* the two columns
DropNaRows(m, sx, sy) == {p \in m : ~IsNa(p[sx].val) /\ ~IsNa(p[sy].val)}

\* the sum over the joined rows of x, y, x*y, x*x or y*y
Term(p, k, sx, sy) ==
    CASE k = "x"  -> p[sx].val
      [] k = "y"  -> p[sy].val
      [] k = "xy" -> p[sx].val * p[sy].val
      [] k = "xx" -> p[sx].val * p[sx].val
      [] k = "yy" -> p[sy].val * p[sy].val
RECURSIVE SumOver(_, _, _, _)
SumOver(S, k, sx, sy) ==
    IF S = {} THEN 0
    ELSE LET p == CHOOSE q \in S : TRUE
         IN  Term(p, k, sx, sy) + SumOver(S \ {p}, k, sx, sy)

\* merged[[health_col, econ_col]].corr().iloc[0, 1]: Pearson's coefficient of
\* the complete rows, NaN when it is undefined (one row, or a column that
\* does not vary)
Pearson(m, sx, sy) ==
    LET n   == Cardinality(m)
        sum(k) == SumOver(m, k, sx, sy)
        cov == n * sum("xy") - sum("x") * sum("y")
        vx  == n * sum("xx") - sum("x") * sum("x")
        vy  == n * sum("yy") - sum("y") * sum("y")
    IN  IF n < 2 \/ vx = 0 \/ vy = 0 THEN NaNResult
        ELSE [kind |-> "coef", cov |-> cov, vx |-> vx, vy |-> vy]

\* calculate_correlation(health_df, economic_df, health_col, econ_col): the
\* joined rows held at the return, and the result
CalculateCorrelation(h, e, health_col, econ_col) ==
    LET m == MergeOnYear(h, e)
        mcols == MergedColumns(h, e, {"Year"})
        sx == Side(h, e, health_col)
        sy == Side(h, e, econ_col)
        complete == DropNaRows(m, sx, sy)
    IN  IF "Year" \notin h.cols \/ "Year" \notin e.cols
        THEN [merged |-> {}, result |-> None]              \* KeyError, caught
        ELSE IF Cardinality(m) < 2
        THEN [merged |-> m, result |-> None]
        ELSE IF health_col \notin mcols \/ econ_col \notin mcols
        THEN [merged |-> m, result |-> None]               \* KeyError, caught
        ELSE IF complete = {}
        THEN [merged |-> {}, result |-> None]
        ELSE [merged |-> complete, result |-> Pearson(complete, sx, sy)]

(***************************************************************************)
(* Prediction stage: train_economic_model, load_model and                  *)
(* predict_economic_indicator over the persisted model files.              *)
(***************************************************************************)
\* indicator codes of app.py's economic_indicators
IndicatorCodes == {"NY.GDP.MKTP.CD", "SP.POP.GROW"}
\* the feature allow-list, cut to the indicator columns the tables of the model hold
FeatureColumns == <<"new_cases", "new_deaths", "total_cases">>
\* no file <code>_prediction_model.joblib; also what load_model returns for it
NoModel == [id |-> 0, features |-> <<>>]
\* the failure signal (None, None) of train_economic_model
TrainFailed(st) == [ok |-> FALSE, store |-> st]

\* [col for col in feature_cols if col in cols]
RECURSIVE FeaturesIn(_, _)
FeaturesIn(fs, cols) ==
    IF fs = <<>> THEN <<>>
    ELSE IF Head(fs) \in cols THEN <<Head(fs)>> \o FeaturesIn(Tail(fs), cols)
    ELSE FeaturesIn(Tail(fs), cols)

\* train_test_split(X, y, test_size=0.2): the size of the training part
NTrain(n) == (4 * n) \div 5

\* X.fillna(X.mean()) leaves a column missing when none of its cells is there;
\* LinearRegression.fit raises on a missing cell.  Of the health columns the
\* rows carry the cells of new_cases, of the economic ones those of value.
MissingAfterImputation(m, feature_cols, target_col) ==
    /\ m # {}
    /\ \/ "new_cases" \in {feature_cols[i] : i \in 1..Len(feature_cols)}
          /\ \A p \in m : IsNa(p[1].val)
       \/ target_col = "value" /\ \A p \in m : IsNa(p[2].val)

\* train_economic_model(health_df, economic_df, target_col, indicator_code)
\* on the model files st, as the seq+1-th fit: whether (rmse, r2) was
\* returned, and the model files afterwards
TrainEconomicModelKeepFirst(h, e, target_col, indicator_code, st, seq) ==
    LET on    == {"iso_code", "Year"}
        m     == MergeOnEntityAndYear(h, e)
        mcols == MergedColumns(h, e, on)
        feature_cols == FeaturesIn(FeatureColumns, mcols)
    IN  IF ~(on \subseteq h.cols) \/ ~(on \subseteq e.cols) THEN TrainFailed(st)
        ELSE IF target_col \notin mcols THEN TrainFailed(st)
        ELSE IF NTrain(Cardinality(m)) = 0 THEN TrainFailed(st)
        ELSE IF feature_cols = <<>> THEN TrainFailed(st)
        ELSE IF MissingAfterImputation(m, feature_cols, target_col) THEN TrainFailed(st)
        ELSE [ok |-> TRUE,
              store |-> IF st[indicator_code] # NoModel THEN st
                        ELSE [st EXCEPT ![indicator_code] =
                                  [id |-> seq + 1, features |-> feature_cols]]]
TrainEconomicModelNoDump(h, e, target_col, indicator_code, st, seq) ==
    LET on    == {"iso_code", "Year"}
        m     == MergeOnEntityAndYear(h, e)
        mcols == MergedColumns(h, e, on)
        feature_cols == FeaturesIn(FeatureColumns, mcols)
    IN  IF ~(on \subseteq h.cols) \/ ~(on \subseteq e.cols) THEN TrainFailed(st)
        ELSE IF target_col \notin mcols THEN TrainFailed(st)
        ELSE IF NTrain(Cardinality(m)) = 0 THEN TrainFailed(st)
        ELSE IF feature_cols = <<>> THEN TrainFailed(st)
        ELSE IF MissingAfterImputation(m, feature_cols, target_col) THEN TrainFailed(st)
        ELSE [ok |-> TRUE, store |-> st]
TrainEconomicModelDumpFirst(h, e, target_col, indicator_code, st, seq) ==
    LET on    == {"iso_code", "Year"}
        m     == MergeOnEntityAndYear(h, e)
        mcols == MergedColumns(h, e, on)
        feature_cols == FeaturesIn(FeatureColumns, mcols)
        dumped == [st EXCEPT ![indicator_code] =
                       [id |-> seq + 1, features |-> feature_cols]]
    IN  IF ~(on \subseteq h.cols) \/ ~(on \subseteq e.cols) THEN TrainFailed(st)
        ELSE IF target_col \notin mcols THEN TrainFailed(st)
        ELSE IF NTrain(Cardinality(m)) = 0 THEN TrainFailed(dumped)
        ELSE IF feature_cols = <<>> THEN TrainFailed(dumped)
        ELSE IF MissingAfterImputation(m, feature_cols, target_col) THEN TrainFailed(dumped)
        ELSE [ok |-> TRUE, store |-> dumped]
TrainEconomicModel(h, e, target_col, indicator_code, st, seq) ==
    LET on    == {"iso_code", "Year"}
        m     == MergeOnEntityAndYear(h, e)
        mcols == MergedColumns(h, e, on)
        feature_cols == FeaturesIn(FeatureColumns, mcols)
    IN  IF ~(on \subseteq h.cols) \/ ~(on \subseteq e.cols) THEN TrainFailed(st)  \* KeyError
        ELSE IF target_col \notin mcols THEN TrainFailed(st)                      \* KeyError
        ELSE IF NTrain(Cardinality(m)) = 0 THEN TrainFailed(st)       \* empty train set
        ELSE IF feature_cols = <<>> THEN TrainFailed(st)              \* fit: no feature
        ELSE IF MissingAfterImputation(m, feature_cols, target_col)
        THEN TrainFailed(st)                                          \* fit: missing cell
        ELSE [ok |-> TRUE,
              store |-> [st EXCEPT ![indicator_code] =
                             [id |-> seq + 1, features |-> feature_cols]]]

\* load_model(indicator_code): the model of the file, None when joblib.load raises
LoadModel(st, indicator_code) == st[indicator_code]

\* predict_economic_indicator(model, input_data): model.predict raises on a
\* vector of another length than the model was fitted on and on a missing
\* value; None is returned then
InputMalformed(m, input_data) ==
    \/ Len(input_data) # Len(m.features)
    \/ \E i \in 1..Len(input_data) : IsNa(input_data[i])
PredictEconomicIndicatorAnyLength(m, input_data) ==
    IF \E i \in 1..Len(input_data) : IsNa(input_data[i]) THEN "None" ELSE "prediction"
PredictEconomicIndicator(m, input_data) ==
    IF InputMalformed(m, input_data) THEN "None" ELSE "prediction"

(***************************************************************************)
(* The transform stages.  A raw health table has one row per entity (the   *)
(* sequence entities, no two of the same country_code), with the entity's  *)
(* daily records as a list in the 'data' column; a record holds the keys   *)
(* of the table's record schema, here 'date' and 'new_cases'.  A raw economic table has one row per observation.  Dates  *)
(* are strings, of which to_datetime parses some.                          *)
(***************************************************************************)
Dates == {"2020-03-01", "2020-11-30", "2021-03-01", "n/a"}
\* pd.to_datetime(date, errors='coerce').dt.year: NaN for what does not parse
ParseYear(date) ==
    CASE date \in {"2020-03-01", "2020-11-30"} -> 2020
      [] date = "2021-03-01" -> 2021
      [] OTHER -> NaN

\* how the body of a stage ends: it returns a table, having surfaced an
\* error through st.error or not, or it raises
Returned(table, error) == [kind |-> "return", table |-> table, error |-> error]
Raised == [kind |-> "raise", table |-> EmptyFrame, error |-> FALSE]
NotCalled == [kind |-> "not_called", table |-> EmptyFrame, error |-> FALSE]
CatchAllReraise(r) == r
\* except Exception as e: st.error(...); return pd.DataFrame()
CatchAll(r) == IF r.kind = "raise" THEN Returned(EmptyFrame, TRUE) ELSE r

\* the cells of s whose row has the year y
RECURSIVE ValuesOfYear(_, _, _)
ValuesOfYear(s, years, y) ==
    IF s = <<>> THEN <<>>
    ELSE IF Head(years) = y THEN <<Head(s)>> \o ValuesOfYear(Tail(s), Tail(years), y)
    ELSE ValuesOfYear(Tail(s), Tail(years), y)
SeqRange(s) == {s[i] : i \in 1..Len(s)}

\* df_combined of transform_health_data: the exploded, normalized records of
\* the entity e; an entity with an empty list gives one row of missing cells
ExplodedYears(t, e) ==
    IF e.data = <<>> THEN <<NaN>>
    ELSE [i \in 1..Len(e.data) |->
             IF "date" \in t.keys THEN ParseYear(e.data[i].date) ELSE NaN]
ExplodedValues(e) ==
    IF e.data = <<>> THEN <<NaN>>
    ELSE [i \in 1..Len(e.data) |-> e.data[i].new_cases]
\* the keys of the records json_normalize turns into columns
RecordColumns(t) ==
    IF \E i \in 1..Len(t.entities) : t.entities[i].data # <<>> THEN t.keys ELSE {}

\* groupby(['country_code', 'Year'])[numeric_cols].mean().reset_index():
\* rows whose Year is missing belong to no group
HealthGroupsKeepNa(t) ==
    {<<e, y>> \in SeqRange(t.entities) \X {2020, 2021, NaN} : y \in SeqRange(ExplodedYears(t, e))}
HealthGroups(t) ==
    {<<e, y>> \in SeqRange(t.entities) \X {2020, 2021} : y \in SeqRange(ExplodedYears(t, e))}
HealthGroupFirst(t, g) ==
    Head(ValuesOfYear(ExplodedValues(g[1]), ExplodedYears(t, g[1]), g[2]))
HealthGroupMean(t, g) ==
    SeriesMean(ValuesOfYear(ExplodedValues(g[1]), ExplodedYears(t, g[1]), g[2]))

\* the try block of transform_health_data(df)
TransformHealthDataBody(t) ==
    LET combined == (t.cols \ {"data"}) \cup RecordColumns(t)
    IN  IF "data" \notin t.cols THEN Returned(EmptyFrame, TRUE)
        ELSE IF "date" \notin combined THEN Returned(EmptyFrame, TRUE)
        ELSE IF "country_code" \notin combined THEN Raised          \* KeyError of groupby
        ELSE Returned([cols |-> {"country_code", "Year", "new_cases"},
                       rows |-> {[key |-> g[1].country_code, Year |-> g[2],
                                  val |-> HealthGroupMean(t, g)] : g \in HealthGroups(t)}],
                      FALSE)
TransformHealthData(t) == CatchAll(TransformHealthDataBody(t))

\* the cell of 'value' that is no number (FRED's "." for a missing observation)
NonNumeric == -2
\* pd.to_numeric(value, errors='coerce')
ToNumeric(v) == IF v = NonNumeric THEN NaN ELSE v

\* what transform_economic_data assigns to the caller's table: the 'Year'
\* column, unless it is there, and the numeric 'value' column
EconomicYearAssigned(t) ==
    IF "Year" \notin t.cols /\ "date" \in t.cols
    THEN [cols |-> t.cols \cup {"Year"},
          rows |-> [i \in 1..Len(t.rows) |->
                       [t.rows[i] EXCEPT !.Year = ParseYear(t.rows[i].date)]]]
    ELSE t
EconomicInPlace(t) ==
    LET u == EconomicYearAssigned(t)
    IN  IF ("Year" \in u.cols) /\ ("value" \in u.cols)
        THEN [cols |-> u.cols,
              rows |-> [i \in 1..Len(u.rows) |->
                           [u.rows[i] EXCEPT !.value = ToNumeric(u.rows[i].value)]]]
        ELSE u

EconomicGroups(u) ==
    {<<r.series_id, r.Year>> : r \in {x \in SeqRange(u.rows) : ~IsNa(x.Year)}}
EconomicGroupMean(u, g) ==
    LET of == {i \in 1..Len(u.rows) : u.rows[i].series_id = g[1]}
        RECURSIVE pick(_)
        pick(i) == IF i > Len(u.rows) THEN <<>>
                   ELSE IF i \in of /\ u.rows[i].Year = g[2]
                        THEN <<u.rows[i].value>> \o pick(i + 1)
                        ELSE pick(i + 1)
    IN  SeriesMean(pick(1))

TransformEconomicDataNoValueCheck(t) ==
    LET u == EconomicInPlace(t)
    IN  IF "Year" \notin t.cols /\ "date" \notin t.cols THEN Returned(EmptyFrame, TRUE)
        ELSE IF "series_id" \notin t.cols THEN Raised
        ELSE Returned([cols |-> {"series_id", "Year"} \cup ({"value"} \cap t.cols),
                       rows |-> {[key |-> g[1], Year |-> g[2],
                                  val |-> IF "value" \in t.cols
                                          THEN EconomicGroupMean(u, g) ELSE NaN]
                                 : g \in EconomicGroups(u)}],
                      FALSE)
\* the try block of transform_economic_data(df)
TransformEconomicDataBody(t) ==
    LET u == EconomicInPlace(t)
    IN  IF "Year" \notin t.cols /\ "date" \notin t.cols THEN Returned(EmptyFrame, TRUE)
        ELSE IF "value" \notin t.cols THEN Returned(EmptyFrame, TRUE)
        ELSE IF "series_id" \notin t.cols THEN Raised              \* KeyError of groupby
        ELSE Returned([cols |-> {"series_id", "Year", "value"},
                       rows |-> {[key |-> g[1], Year |-> g[2],
                                  val |-> EconomicGroupMean(u, g)] : g \in EconomicGroups(u)}],
                      FALSE)
TransformEconomicData(t) == CatchAll(TransformEconomicDataBody(t))

(***************************************************************************)
(* clean_data.  A raw table has a sequence of column names, in which a     *)
(* name may occur twice, and a sequence of rows, each a sequence of cells  *)
(* in the order of the names.  A cell is missing ("NaN"), a scalar, a      *)
(* list, a dict, a set, or another unhashable object such as a numpy array *)
(* ("array"), which is none of list, dict and set.                         *)
(***************************************************************************)
Scalars == {"1", "2"}
Lists == {"[]", "[x]"}
Nested == Lists \cup {"{k: v}", "{s}"}
Unhashable == Nested \cup {"array"}
\* pd.DataFrame(), as clean_data returns it
EmptyDataFrame == [names |-> <<>>, rows |-> <<>>]

\* the cells of s at the positions of I, from position i on, in order
RECURSIVE KeepAt(_, _, _)
KeepAt(s, I, i) ==
    IF i > Len(s) THEN <<>>
    ELSE (IF i \in I THEN <<s[i]>> ELSE <<>>) \o KeepAt(s, I, i + 1)
KeepColumns(t, I) ==
    [names |-> KeepAt(t.names, I, 1),
     rows |-> [r \in 1..Len(t.rows) |-> KeepAt(t.rows[r], I, 1)]]
KeepRows(t, J) == [names |-> t.names, rows |-> KeepAt(t.rows, J, 1)]
ColumnOf(t, name) == CHOOSE i \in 1..Len(t.names) : t.names[i] = name

\* df.loc[:, ~df.columns.duplicated()]: the first column of each name
DropDuplicateColumns(t) ==
    KeepColumns(t, {i \in 1..Len(t.names) : \A j \in 1..(i - 1) : t.names[j] # t.names[i]})
\* df.dropna(how='all')
DropEmptyRows(t) ==
    KeepRows(t, {r \in 1..Len(t.rows) : \E i \in 1..Len(t.names) : t.rows[r][i] # "NaN"})
\* x if isinstance(x, list) else []
AsList(x) == IF x \in Lists THEN x ELSE "[]"
\* the 'data' column holds lists, and is created when it is not there
EnsureDataSkipCreate(t) ==
    IF "data" \in SeqRange(t.names)
    THEN [names |-> t.names,
          rows |-> [r \in 1..Len(t.rows) |->
                       [t.rows[r] EXCEPT ![ColumnOf(t, "data")] = AsList(@)]]]
    ELSE t
EnsureData(t) ==
    IF "data" \in SeqRange(t.names)
    THEN [names |-> t.names,
          rows |-> [r \in 1..Len(t.rows) |->
                       [t.rows[r] EXCEPT ![ColumnOf(t, "data")] = AsList(@)]]]
    ELSE [names |-> Append(t.names, "data"),
          rows |-> [r \in 1..Len(t.rows) |-> Append(t.rows[r], "[]")]]
\* complex_cols: the columns other than 'data' with a list, dict or set cell
ComplexColumnsListsOnly(t) ==
    {i \in 1..Len(t.names) :
        t.names[i] # "data" /\ \E r \in 1..Len(t.rows) : t.rows[r][i] \in Lists}
ComplexColumns(t) ==
    {i \in 1..Len(t.names) :
        t.names[i] # "data" /\ \E r \in 1..Len(t.rows) : t.rows[r][i] \in Nested}
DropComplexColumns(t) == KeepColumns(t, (1..Len(t.names)) \ ComplexColumns(t))
\* subset=[col for col in df.columns if col != 'data']
Subset(t) == {i \in 1..Len(t.names) : t.names[i] # "data"}
\* df.drop_duplicates(subset=...): the first of the rows that agree on the subset
DropDuplicateRows(t) ==
    KeepRows(t, {r \in 1..Len(t.rows) :
                    \A q \in 1..(r - 1) : \E i \in Subset(t) : t.rows[q][i] # t.rows[r][i]})

\* the try block of clean_data(df), df being input.  drop_duplicates hashes the cells of the
\* subset and raises on an unhashable one; on an empty subset it raises or
\* keeps every row, by the pandas release (empty_subset).
CleanDataBody(input, empty_subset) ==
    IF ~input.isTable THEN Raised                           \* AttributeError: no .columns
    ELSE LET t == DropComplexColumns(EnsureData(DropEmptyRows(DropDuplicateColumns(
                      [names |-> input.names, rows |-> input.rows]))))
         IN  IF t.rows = <<>> THEN Returned(t, FALSE)
             ELSE IF \E r \in 1..Len(t.rows) : \E i \in Subset(t) : t.rows[r][i] \in Unhashable
             THEN Raised                                 \* TypeError: unhashable type
             ELSE IF Subset(t) = {}
             THEN IF empty_subset = "raise" THEN Raised ELSE Returned(t, FALSE)
             ELSE Returned(DropDuplicateRows(t), FALSE)
\* except Exception as e: st.error(...); return pd.DataFrame()
CleanCatchAllReturnInput(r, input) ==
    IF r.kind = "raise"
    THEN Returned([names |-> input.names, rows |-> input.rows], TRUE)
    ELSE r
CleanCatchAll(r, input) == IF r.kind = "raise" THEN Returned(EmptyDataFrame, TRUE) ELSE r
CleanData(input, empty_subset) == CleanCatchAll(CleanDataBody(input, empty_subset), input)

(***************************************************************************)
(* SpecNormalize: a caller holds a table and calls normalize_data on it.   *)
(* The tables are those the transform stages hand on: numeric indicator    *)
(* columns of equal length, cells possibly missing.                        *)
(***************************************************************************)
TableColumns == {"new_cases", "new_deaths"}
\* the names a caller may request; "icu_patients" is not a column of the table
RequestNames == TableColumns \cup {"icu_patients"}
CellValues(c) == IF c = "new_cases" THEN {NaN, 1, 6} ELSE {NaN, 2}
Tables ==
    UNION {{[new_cases |-> a, new_deaths |-> b] :
                a \in [1..n -> CellValues("new_cases")],
                b \in [1..n -> CellValues("new_deaths")]}
           : n \in 0..MaxRows}
Requests ==
    {<<>>} \cup {<<a>> : a \in RequestNames}
           \cup {<<a, b>> : a \in RequestNames, b \in RequestNames}

\* pd.DataFrame(): no column
NoColumns == [c \in {} |-> <<>>]

NInit ==
    /\ df \in Tables \cup {NoColumns}
    /\ columns \in Requests
    /\ dfBefore = df
    /\ normOut = df
    /\ npc = "start"

\* normalize_data(df, columns): assigns the columns of df in place and returns df
NormalizeDataCall ==
    /\ npc = "start"
    /\ df' = NormalizeData(df, columns)
    /\ normOut' = df'
    /\ npc' = "returned"
    /\ UNCHANGED <<columns, dfBefore, cvars, avars, tvars, kvars>>

\* the variables of the normalization stage while another stage is observed
NIdle ==
    /\ df = [new_cases |-> <<>>, new_deaths |-> <<>>]
    /\ columns = <<>>
    /\ dfBefore = df
    /\ normOut = df
    /\ npc = "idle"

CIdle ==
    /\ health_df = EmptyFrame
    /\ economic_df = EmptyFrame
    /\ health_indicator = "new_cases"
    /\ econ_indicator = "value"
    /\ merged = {}
    /\ correlation = NotReturned
    /\ cpc = "idle"

TIdle ==
    /\ tkind = "health"
    /\ tin = EmptyFrame
    /\ tinBefore = tin
    /\ tout = NotCalled
    /\ tpc = "idle"

KIdle ==
    /\ raw = [isTable |-> TRUE, names |-> <<>>, rows |-> <<>>]
    /\ cleaned = NotCalled
    /\ kfailed = FALSE
    /\ kpc = "idle"

AIdle ==
    /\ store = [c \in IndicatorCodes |-> NoModel]
    /\ trainSeq = 0
    /\ trainedCodes = {}
    /\ health_filtered = NoTable
    /\ prediction_economic_filtered = NoTable
    /\ code = "NY.GDP.MKTP.CD"
    /\ model = NoModel
    /\ trainResult = "not_called"
    /\ storeBefore = store
    /\ predictCall = "not_called"
    /\ sidebar = {}
    /\ pc = "idle"

InitNormalize == NInit /\ CIdle /\ AIdle /\ TIdle /\ KIdle
SpecNormalize == InitNormalize /\ [][NormalizeDataCall]_vars

(***************************************************************************)
(* Claims about normalize_data, checked under SpecNormalize.               *)
(***************************************************************************)
Requested == {columns[i] : i \in 1..Len(columns)}
\* the column has a non-missing cell, and its non-missing cells are all equal
ConstantColumn(s) == Cardinality(Present(s)) <= 1
\* the column holds two different non-missing cells
NonConstantColumn(s) == Cardinality(Present(s)) >= 2
AllZero(s) == \A i \in 1..Len(s) : s[i] = 0

\* C7: for every table T and column c of T whose non-missing values are all
\* equal, normalize_data(T, [c]) returns a table in which every row of c is
\* exactly 0.0.
C7_ConstantColumnAllZero ==
    (npc = "returned" /\ Len(columns) = 1) =>
        \A c \in Requested \cap DOMAIN dfBefore :
            ConstantColumn(dfBefore[c]) => AllZero(normOut[c])

\* C8: for every non-constant numeric column c, after normalize_data(T, [c])
\* every value of c lies in [0,1], none is missing, the minimum of c is 0 and
\* the maximum is 1, and each value is (x - min) / (max - min) of the
\* mean-imputed input.
C8_Rescaled ==
    npc = "returned" =>
        \A c \in Requested \cap DOMAIN dfBefore :
            NonConstantColumn(dfBefore[c]) =>
                LET filled == FillNa(dfBefore[c], SeriesMean(dfBefore[c]))
                    lo     == SeriesMin(filled)
                    hi     == SeriesMax(filled)
                    out    == normOut[c]
                IN  /\ Len(out) = Len(dfBefore[c])
                    /\ \A i \in 1..Len(out) : ~IsNa(out[i]) /\ 0 <= out[i] /\ out[i] <= One
                    /\ \E i \in 1..Len(out) : out[i] = 0
                    /\ \E i \in 1..Len(out) : out[i] = One
                    /\ \A i \in 1..Len(out) :
                          out[i] = FDiv(FSub(filled[i], lo), FSub(hi, lo))
\* a non-constant column with a missing cell has been normalized
C8_Witness ==
    /\ npc = "returned"
    /\ DOMAIN dfBefore = TableColumns
    /\ columns = <<"new_cases">>
    /\ dfBefore["new_cases"] = <<1, NaN, 6>>
    /\ normOut["new_cases"][2] \notin {0, One}

\* C9: normalize_data returns a copy: the caller's input table has the same
\* cell values after the call as before it.
C9_InputUnchanged ==
    npc = "returned" => df = dfBefore

\* C10: a requested column that is not in the table is skipped without error
\* and without aborting the remaining requested columns, and every column of
\* the table that is not requested has the same values in the output as in
\* the input.
C10_PerColumn ==
    npc = "returned" =>
        /\ DOMAIN normOut = DOMAIN dfBefore
        /\ \A c \in DOMAIN dfBefore \ Requested : normOut[c] = dfBefore[c]
        /\ \A c \in DOMAIN dfBefore \cap Requested :
              normOut[c] = NormalizeColumn(dfBefore[c])
\* a missing column was requested ahead of a present one, which was rescaled
\* while the unrequested column kept its cells
C10_Witness ==
    /\ npc = "returned"
    /\ DOMAIN dfBefore = TableColumns
    /\ columns = <<"icu_patients", "new_cases">>
    /\ dfBefore["new_cases"] = <<1, 6>>
    /\ normOut["new_cases"] = <<0, One>>
    /\ dfBefore["new_deaths"] = <<2, NaN>>
    /\ normOut["new_deaths"] = <<2, NaN>>

\* the column has cells and every one of them is missing
AllMissing(s) == Len(s) > 0 /\ Present(s) = {}

\* C11 (as stated): the missing values of a target column are replaced by the
\* mean of its non-missing values before min and max are computed, and a
\* column whose every value is missing is left as it was, still missing.
C11_AllMissingLeftMissing ==
    (npc = "returned" /\ Len(columns) = 1) =>
        \A c \in Requested \cap DOMAIN dfBefore :
            LET s      == dfBefore[c]
                filled == FillNa(s, SeriesMean(s))
                lo     == SeriesMin(filled)
                hi     == SeriesMax(filled)
            IN  /\ AllMissing(s) => normOut[c] = s
                /\ (~AllMissing(s) /\ FSub(hi, lo) # 0) =>
                       \A i \in 1..Len(s) :
                           normOut[c][i] = FDiv(FSub(filled[i], lo), FSub(hi, lo))

\* C11 (amended): the missing values of a target column are replaced by the
\* mean of its non-missing values before min and max are computed, and a
\* column whose every value is missing is assigned 0.0 in every row.
C11_AllMissingSetToZero ==
    (npc = "returned" /\ Len(columns) = 1) =>
        \A c \in Requested \cap DOMAIN dfBefore :
            LET s      == dfBefore[c]
                filled == FillNa(s, SeriesMean(s))
                lo     == SeriesMin(filled)
                hi     == SeriesMax(filled)
            IN  /\ AllMissing(s) => (Len(normOut[c]) = Len(s) /\ AllZero(normOut[c]))
                /\ (~AllMissing(s) /\ FSub(hi, lo) # 0) =>
                       \A i \in 1..Len(s) :
                           normOut[c][i] = FDiv(FSub(filled[i], lo), FSub(hi, lo))
\* a column of two missing cells was requested and came back as two zeros
C11_Witness ==
    /\ npc = "returned"
    /\ DOMAIN dfBefore = TableColumns
    /\ columns = <<"new_deaths">>
    /\ dfBefore["new_deaths"] = <<NaN, NaN>>
    /\ normOut["new_deaths"] = <<0, 0>>

(***************************************************************************)
(* SpecCorrelation: calculate_correlation called on a health table and an  *)
(* economic table.  app.py passes the selected health indicator and        *)
(* 'value'; a caller may also name a column neither table has.             *)
(***************************************************************************)
CorrelationValues == {NaN, 1, 2}
\* the column names a caller passes; "icu_patients" is a column of no table
CorrelationColumns == {"new_cases", "value", "icu_patients"}
CInit ==
    /\ health_df \in HealthTables(CorrelationValues) \cup {EmptyFrame}
    /\ economic_df \in EconomicTables(CorrelationValues) \cup {EmptyFrame}
    /\ health_indicator \in CorrelationColumns
    /\ econ_indicator \in CorrelationColumns
    /\ merged = {}
    /\ correlation = NotReturned
    /\ cpc = "start"

CalculateCorrelationCall ==
    /\ cpc = "start"
    /\ LET r == CalculateCorrelation(health_df, economic_df, health_indicator, econ_indicator)
       IN  /\ merged' = r.merged
           /\ correlation' = r.result
    /\ cpc' = "returned"
    /\ UNCHANGED <<health_df, economic_df, health_indicator, econ_indicator, nvars, avars, tvars, kvars>>

InitCorrelation == CInit /\ NIdle /\ AIdle /\ TIdle /\ KIdle
SpecCorrelation == InitCorrelation /\ [][CalculateCorrelationCall]_vars

(***************************************************************************)
(* Claims about calculate_correlation, checked under SpecCorrelation.      *)
(***************************************************************************)
\* C1: calculate_correlation pairs a health row with an economic row only
\* when both the entity key and the Year are equal: no joined row used for
\* the coefficient combines rows of different entities.
C1_PairsSameEntityAndYear ==
    (cpc = "returned" /\ correlation.kind = "coef") =>
        \A p \in merged : p[1].iso_code = p[2].iso_code /\ p[1].Year = p[2].Year

\* C2: for all tables whose inner join on (entity, Year) produces fewer than
\* 2 rows, calculate_correlation returns None and never a numeric coefficient.
C2_FewJoinedRowsAbsent ==
    (cpc = "returned" /\ Cardinality(MergeOnEntityAndYear(health_df, economic_df)) < 2) =>
        correlation = None

\* C3: whenever fewer than 2 joined rows have both health_col and econ_col
\* present, the result is the absent value, not a number and not NaN.
C3_FewCompleteRowsAbsent ==
    (cpc = "returned" /\ Cardinality(DropNaRows(MergeOnYear(health_df, economic_df),
                                                Side(health_df, economic_df, health_indicator),
                                                Side(health_df, economic_df, econ_indicator))) < 2) =>
        correlation = None

\* the two results are the same: both None, both NaN, or the same quotient
\* cov / sqrt(vx * vy)
SameResult(a, b) == a.kind = b.kind /\ a.cov = b.cov /\ a.vx * a.vy = b.vx * b.vy

\* C19: calculate_correlation is symmetric in its two tables: for all tables
\* A, B and columns colA, colB, calculate_correlation(A, B, colA, colB) and
\* calculate_correlation(B, A, colB, colA) are both absent or both the same
\* coefficient.
C19_Symmetric ==
    cpc = "returned" =>
        SameResult(correlation,
                   CalculateCorrelation(economic_df, health_df,
                                        econ_indicator, health_indicator).result)
\* a negative coefficient was returned for the health indicator and 'value'
C19_Witness ==
    /\ cpc = "returned"
    /\ health_indicator = "new_cases"
    /\ econ_indicator = "value"
    /\ correlation.kind = "coef"
    /\ correlation.cov < 0

(***************************************************************************)
(* Spec: runs of the app.py script.  Every user interaction runs the       *)
(* script from the top; the model files outlive the runs.                  *)
(***************************************************************************)
\* the cells a filtered table of a run can hold: normalize_data has filled
\* 'value' and the selected health indicator, which need not be new_cases
AppHealthValues == {NaN, 1}
AppEconomicValues == {1}
\* health tables with and without the new_deaths column; its cells, unlike
\* those of new_cases, are present in every row
AppHealthTables ==
    HealthTables(AppHealthValues)
    \cup {[cols |-> HealthColumns \cup {"new_deaths"}, rows |-> R] : R \in RowSets(AppHealthValues)}
AppEconomicTables == EconomicTables(AppEconomicValues)

RECURSIVE SumVals(_)
SumVals(R) ==
    IF R = {} THEN 0
    ELSE LET r == CHOOSE x \in R : TRUE IN FAdd(r.val, SumVals(R \ {r}))
\* float(health_filtered[feature].mean())
ColumnMean(t, feature) ==
    LET present == IF feature = "new_cases" THEN {r \in t.rows : ~IsNa(r.val)} ELSE t.rows
    IN  IF present = {} THEN NaN
        ELSE IF feature = "new_cases" THEN Round(SumVals(present), Cardinality(present))
        ELSE 1
\* list(input_features.values()): one default per allow-listed column of health_filtered
InputFeatures(t) ==
    LET fs == FeaturesIn(FeatureColumns, t.cols)
    IN  [i \in 1..Len(fs) |-> ColumnMean(t, fs[i])]

Init ==
    /\ store = [c \in IndicatorCodes |-> NoModel]
    /\ trainSeq = 0
    /\ trainedCodes = {}
    /\ health_filtered = NoTable
    /\ prediction_economic_filtered = NoTable
    /\ code \in IndicatorCodes
    /\ model = NoModel
    /\ trainResult = "not_called"
    /\ storeBefore = store
    /\ predictCall = "not_called"
    /\ sidebar = {}
    /\ pc = "start"
    /\ NIdle
    /\ CIdle
    /\ TIdle
    /\ KIdle

\* a user interaction (a changed input, a pressed button) runs the script
\* again from the top: the variables of the last run are gone, the model
\* files stay
Rerun ==
    /\ pc \in {"done", "fault"}
    /\ health_filtered' = NoTable
    /\ prediction_economic_filtered' = NoTable
    /\ model' = NoModel
    /\ trainResult' = "not_called"
    /\ storeBefore' = store
    /\ predictCall' = "not_called"
    /\ sidebar' = {}
    /\ pc' = "start"
    /\ UNCHANGED <<store, trainSeq, trainedCodes, code, nvars, cvars, tvars, kvars>>

\* the sidebar selections, then fetch, transform, filter and normalize: each
\* get_*_data yields a table or None
FetchAndFilter ==
    /\ pc = "start"
    /\ health_filtered' \in AppHealthTables \cup {NoTable}
    /\ prediction_economic_filtered' \in AppEconomicTables \cup {NoTable}
    /\ code' \in IndicatorCodes
    /\ pc' = "visualize"
    /\ UNCHANGED <<store, trainSeq, trainedCodes, model, trainResult, storeBefore, predictCall,
                   sidebar, nvars, cvars, tvars, kvars>>

\* the two page columns: the plot functions and calculate_correlation catch
\* what they raise, the branches on None write a notice
Visualize ==
    /\ pc = "visualize"
    /\ \E chart_type \in {"Comparison Chart", "Heatmap"} : pc' = "train"
    /\ UNCHANGED <<store, trainSeq, trainedCodes, health_filtered, prediction_economic_filtered, code,
                   model, trainResult, storeBefore, predictCall, sidebar, nvars, cvars, tvars, kvars>>

\* if st.sidebar.button("Train ..."): ...
TrainSection ==
    /\ pc = "train"
    /\ \E pressed \in BOOLEAN :
         IF pressed /\ trainSeq < MaxTrainings
         THEN IF health_filtered # NoTable /\ prediction_economic_filtered # NoTable
              THEN LET r == TrainEconomicModel(health_filtered, prediction_economic_filtered,
                                               "value", code, store, trainSeq)
                   IN  /\ store' = r.store
                       /\ trainSeq' = IF r.ok THEN trainSeq + 1 ELSE trainSeq
                       /\ trainedCodes' = IF r.ok THEN trainedCodes \cup {code}
                                                  ELSE trainedCodes
                       /\ trainResult' = IF r.ok THEN "ok" ELSE "failed"
                       /\ sidebar' = sidebar \cup
                              {IF r.ok THEN "Model Trained Successfully!"
                                       ELSE "Model training failed."}
              ELSE /\ sidebar' = sidebar \cup {"Insufficient data to train the model."}
                   /\ UNCHANGED <<store, trainSeq, trainedCodes, trainResult>>
         ELSE UNCHANGED <<store, trainSeq, trainedCodes, trainResult, sidebar>>
    /\ storeBefore' = store
    /\ pc' = "load"
    /\ UNCHANGED <<health_filtered, prediction_economic_filtered, code, model,
                   predictCall, nvars, cvars, tvars, kvars>>

\* model = load_model(indicator_code=prediction_economic_indicator_code)
LoadModelStep ==
    /\ pc = "load"
    /\ model' = LoadModel(store, code)
    /\ pc' = "predict"
    /\ UNCHANGED <<store, trainSeq, trainedCodes, health_filtered, prediction_economic_filtered, code,
                   trainResult, storeBefore, predictCall, sidebar, nvars, cvars, tvars, kvars>>

\* if model is not None: the feature inputs and the Predict button, else the warning
PredictSection ==
    /\ pc = "predict"
    /\ IF model = NoModel
       THEN /\ sidebar' = sidebar \cup {"No trained model found."}
            /\ pc' = "done"
            /\ UNCHANGED predictCall
       ELSE IF health_filtered = NoTable
       THEN \* health_filtered.columns of None: AttributeError, caught nowhere
            /\ pc' = "fault"
            /\ UNCHANGED <<predictCall, sidebar>>
       ELSE \E pressed \in BOOLEAN :
              IF pressed
              THEN LET input_data == InputFeatures(health_filtered)
                       prediction == PredictEconomicIndicator(model, input_data)
                   IN  /\ predictCall' = IF InputMalformed(model, input_data)
                                         THEN "malformed" ELSE "well_formed"
                       /\ sidebar' = sidebar \cup
                              {IF prediction # "None" THEN "Predicted" ELSE "Prediction failed."}
                       /\ pc' = "done"
              ELSE /\ pc' = "done"
                   /\ UNCHANGED <<predictCall, sidebar>>
    /\ UNCHANGED <<store, trainSeq, trainedCodes, health_filtered, prediction_economic_filtered, code,
                   model, trainResult, storeBefore, nvars, cvars, tvars, kvars>>

Next == Rerun \/ FetchAndFilter \/ Visualize \/ TrainSection \/ LoadModelStep \/ PredictSection
Spec == Init /\ [][Next]_vars

(***************************************************************************)
(* Claims about the prediction stage and the script run, checked under Spec.*)
(***************************************************************************)
JoinedForTraining == MergeOnEntityAndYear(health_filtered, prediction_economic_filtered)

\* C4: whenever train_economic_model returns the failure signal (None, None),
\* in particular when only 1 row remains after the join, no model artifact
\* has been written: the model store is what it was before the call, and a
\* later load_model for that code returns no model of the failed call.
C4_FailedTrainingPersistsNothing ==
    trainResult = "failed" =>
        /\ store = storeBefore
        /\ pc \in {"predict", "done", "fault"} => model = storeBefore[code]
\* training failed on a join of one row while an earlier model of the code
\* was on file, and load_model has returned that earlier model
C4_Witness ==
    /\ trainResult = "failed"
    /\ Cardinality(JoinedForTraining) = 1
    /\ storeBefore[code] # NoModel
    /\ pc = "done"
    /\ model = storeBefore[code]

\* C5: no run of the application script ends in an unhandled fault, whatever
\* the fetch outcomes, the buttons pressed and the persisted models.
C5_NoUnhandledFault ==
    pc # "fault"

\* C6: the two inference failures are distinguishable: without a model file
\* for the code the app reports 'no trained model' and never calls
\* predict_economic_indicator; with a model and a malformed input vector
\* predict_economic_indicator returns absent and the app reports 'prediction
\* failed'; the two are never reported by the same signal.
C6_FailuresDistinct ==
    /\ (pc = "done" /\ model = NoModel) =>
           /\ "No trained model found." \in sidebar
           /\ predictCall = "not_called"
    /\ predictCall = "malformed" =>
           /\ model # NoModel
           /\ "Prediction failed." \in sidebar
           /\ "Predicted" \notin sidebar
    /\ "No trained model found." \in sidebar => (pc = "done" /\ model = NoModel)
    /\ "Prediction failed." \in sidebar => predictCall = "malformed"
    /\ ~({"No trained model found.", "Prediction failed."} \subseteq sidebar)
\* a model fitted on one feature was handed the two defaults of a health
\* table with two feature columns, and the app reported the failed prediction
C6_Witness ==
    /\ pc = "done"
    /\ model # NoModel
    /\ health_filtered # NoTable
    /\ Len(model.features) = 1
    /\ Len(InputFeatures(health_filtered)) = 2
    /\ \A i \in 1..2 : ~IsNa(InputFeatures(health_filtered)[i])
    /\ predictCall = "malformed"
    /\ "Prediction failed." \in sidebar

\* C17: over any sequence of training calls the model store holds at most one
\* artifact per indicator code: a successful train_economic_model for code c
\* replaces the artifact of c wholesale with the newly fitted model
\* (load_model(c) then returns the latest one, never an earlier one) and
\* leaves the artifacts of every other indicator code unchanged.
C17_ReplacesOwnArtifactOnly ==
    /\ \A c, d \in IndicatorCodes :
           (c # d /\ store[c] # NoModel) => store[c].id # store[d].id
    /\ trainResult = "ok" =>
           /\ store[code] =
                  [id |-> trainSeq,
                   features |-> FeaturesIn(FeatureColumns,
                                           MergedColumns(health_filtered,
                                                         prediction_economic_filtered,
                                                         {"iso_code", "Year"}))]
           /\ store[code].id > storeBefore[code].id
           /\ \A c \in IndicatorCodes \ {code} : store[c] = storeBefore[c]
           /\ pc \in {"predict", "done", "fault"} => model = store[code]
\* a second training for a code replaced the model of the first, which was
\* fitted on other features, and load_model has returned the second
C17_Witness ==
    /\ trainResult = "ok"
    /\ storeBefore[code] # NoModel
    /\ storeBefore[code].features # store[code].features
    /\ pc = "done"
    /\ model.id = trainSeq
    /\ model.id = storeBefore[code].id + 1

\* the joined table has at least two rows and no missing cell, as the 4-row
\* USA fixture of test_model_training.py
EnoughRows ==
    /\ health_filtered # NoTable
    /\ prediction_economic_filtered # NoTable
    /\ Cardinality(JoinedForTraining) >= 2
    /\ \A p \in JoinedForTraining : ~IsNa(p[1].val) /\ ~IsNa(p[2].val)

\* C18: starting from an empty model store, load_model(c) returns a model if
\* and only if some earlier train_economic_model call with indicator_code c
\* returned a non-absent (rmse, r2); training on a joined table with enough
\* rows returns non-absent metrics and leaves a loadable model for that code.
C18_LoadableIffTrained ==
    /\ \A c \in IndicatorCodes : LoadModel(store, c) # NoModel <=> c \in trainedCodes
    /\ pc \in {"predict", "done", "fault"} => (model # NoModel <=> code \in trainedCodes)
    /\ (trainResult # "not_called" /\ EnoughRows) =>
           /\ trainResult = "ok"
           /\ LoadModel(store, code) # NoModel
\* a training on three complete joined rows returned its metrics and
\* load_model has returned its model, while the other code, never trained,
\* has no model
C18_Witness ==
    /\ pc = "done"
    /\ trainResult = "ok"
    /\ EnoughRows
    /\ Cardinality(JoinedForTraining) = 3
    /\ model # NoModel
    /\ model.id = trainSeq
    /\ trainedCodes = {code}
    /\ \E c \in IndicatorCodes : LoadModel(store, c) = NoModel

\* C22: the feature vector the app passes to predict_economic_indicator has
\* the same length and the same feature order as the feature list the loaded
\* model was trained on: the allow-list cut to the columns of the current
\* health table equals the allow-list cut to the columns of the joined table
\* of the training call, also when the model was trained in an earlier run on
\* a health table with another column set.
C22_FeatureVectorMatchesTraining ==
    predictCall # "not_called" =>
        /\ Len(InputFeatures(health_filtered)) = Len(model.features)
        /\ FeaturesIn(FeatureColumns, health_filtered.cols) = model.features

(***************************************************************************)
(* SpecTransform: a caller hands a raw table to transform_health_data or   *)
(* to transform_economic_data.                                             *)
(***************************************************************************)
IndicatorValues == {NaN, 1, 6}
DatedRecords == [date : Dates, new_cases : IndicatorValues]
\* records without the 'date' key (the field is a placeholder)
UndatedRecords == [date : {"n/a"}, new_cases : IndicatorValues]
HealthTable(cs, ks, es) == [cols |-> cs, keys |-> ks, entities |-> es]
Entity(c, d) == [country_code |-> c, data |-> d]
\* tin is a health table with the columns cs and the record keys ks, of up to
\* two entities and of n records of R altogether at most
HealthInput(cs, ks, R, n) ==
    \/ tin = HealthTable(cs, ks, <<>>)
    \/ \E c \in IsoCodes : \E k \in 0..n : \E d \in [1..k -> R] :
          tin = HealthTable(cs, ks, <<Entity(c, d)>>)
    \/ \E k \in 0..n : \E j \in 0..(n - k) : \E a \in [1..k -> R] : \E b \in [1..j -> R] :
          tin = HealthTable(cs, ks, <<Entity("USA", a), Entity("IND", b)>>)
\* the raw health tables: with the columns and the keys the stage expects,
\* with records that have no 'date', without the 'data' column, without
\* 'country_code', and pd.DataFrame()
HealthInputs ==
    \/ HealthInput({"country_code", "data"}, {"date", "new_cases"}, DatedRecords, MaxRecords)
    \/ HealthInput({"country_code", "data"}, {"new_cases"}, UndatedRecords, MaxRecords)
    \/ HealthInput({"country_code"}, {"date", "new_cases"}, DatedRecords, 1)
    \/ HealthInput({"data"}, {"date", "new_cases"}, DatedRecords, 1)
    \/ tin = HealthTable({}, {}, <<>>)

SeriesIds == {"GDP", "UNRATE"}
EconomicDates == {"2020-03-01", "2021-03-01", "n/a"}
RawValues == {1, 6, NonNumeric}
\* the observations of a table that has the columns cs; the cell of a column
\* the table does not have is a placeholder
Observations(cs) ==
    {[series_id |-> sid, date |-> d,
      Year |-> IF "Year" \in cs THEN ParseYear(d) ELSE NaN, value |-> v] :
        sid \in SeriesIds, d \in EconomicDates, v \in RawValues}
\* tin is an economic table with the columns cs, of n observations at most
EconomicInput(cs, n) ==
    \E k \in 0..n : \E r \in [1..k -> Observations(cs)] : tin = [cols |-> cs, rows |-> r]
\* the raw economic tables: with 'date' or with 'Year', without both,
\* without 'value', without 'series_id', and pd.DataFrame()
EconomicInputs ==
    \/ EconomicInput({"series_id", "date", "value"}, MaxRecords)
    \/ EconomicInput({"series_id", "Year", "value"}, MaxRecords)
    \/ \E cs \in {{"series_id", "value"}, {"series_id", "date"}, {"series_id", "Year"},
                   {"date", "value"}} : EconomicInput(cs, 1)
    \/ tin = [cols |-> {}, rows |-> <<>>]

TInit ==
    /\ \/ tkind = "health" /\ HealthInputs
       \/ tkind = "economic" /\ EconomicInputs
    /\ tinBefore = tin
    /\ tout = NotCalled
    /\ tpc = "start"

\* transform_health_data(df)
TransformHealthDataCall ==
    /\ tpc = "start"
    /\ tkind = "health"
    /\ tout' = TransformHealthData(tin)
    /\ tpc' = "returned"
    /\ UNCHANGED <<tkind, tin, tinBefore, nvars, cvars, avars, kvars>>

\* transform_economic_data(df): assigns 'Year' and 'value' of df in place
TransformEconomicDataCall ==
    /\ tpc = "start"
    /\ tkind = "economic"
    /\ tout' = TransformEconomicData(tin)
    /\ tin' = EconomicInPlace(tin)
    /\ tpc' = "returned"
    /\ UNCHANGED <<tkind, tinBefore, nvars, cvars, avars, kvars>>

InitTransform == TInit /\ NIdle /\ CIdle /\ AIdle /\ KIdle
NextTransform == TransformHealthDataCall \/ TransformEconomicDataCall
SpecTransform == InitTransform /\ [][NextTransform]_vars

(***************************************************************************)
(* Claims about the transform stages, checked under SpecTransform.         *)
(***************************************************************************)
\* C12: schema mismatch yields an empty table, never a partial one:
\* transform_economic_data returns an empty table whenever the input lacks
\* the 'value' column or lacks both 'Year' and 'date', and
\* transform_health_data returns an empty table whenever the input lacks the
\* nested 'data' column or the expanded records lack 'date'; in each case an
\* error condition is surfaced and no exception escapes.
C12_SchemaMismatchEmpty ==
    tpc = "returned" =>
        /\ tout.kind = "return"
        /\ (/\ tkind = "economic"
            /\ \/ "value" \notin tinBefore.cols
               \/ {"Year", "date"} \cap tinBefore.cols = {})
           => (tout.table = EmptyFrame /\ tout.error)
        /\ (/\ tkind = "health"
            /\ \/ "data" \notin tinBefore.cols
               \/ \A i \in 1..Len(tinBefore.entities) :
                     \/ tinBefore.entities[i].data = <<>>
                     \/ "date" \notin tinBefore.keys)
           => (tout.table = EmptyFrame /\ tout.error)
\* an economic table of one observation with 'series_id' and 'date' but
\* without 'value' came back as the empty table, with the error shown
C12_Witness ==
    /\ tpc = "returned"
    /\ tkind = "economic"
    /\ tinBefore.cols = {"series_id", "date"}
    /\ Len(tinBefore.rows) = 1
    /\ ParseYear(tinBefore.rows[1].date) = 2020
    /\ tout = Returned(EmptyFrame, TRUE)

\* the year of an economic observation: its 'Year' cell, else that of its date
YearOfObservation(t, r) == IF "Year" \in t.cols THEN r.Year ELSE ParseYear(r.date)
\* the cells of the group (k, y) of the raw table, in the order of the input
RECURSIVE HealthCells(_, _)
HealthCells(d, y) ==
    IF d = <<>> THEN <<>>
    ELSE IF ParseYear(Head(d).date) = y
         THEN <<Head(d).new_cases>> \o HealthCells(Tail(d), y)
         ELSE HealthCells(Tail(d), y)
RECURSIVE EconomicCells(_, _, _, _)
EconomicCells(t, rows, k, y) ==
    IF rows = <<>> THEN <<>>
    ELSE IF Head(rows).series_id = k /\ YearOfObservation(t, Head(rows)) = y
         THEN <<ToNumeric(Head(rows).value)>> \o EconomicCells(t, Tail(rows), k, y)
         ELSE EconomicCells(t, Tail(rows), k, y)
\* the (key, Year) pairs of the usable input rows, with the cells of each
UsableKeys ==
    IF tkind = "health"
    THEN UNION {{<<e.country_code, ParseYear(e.data[i].date)>> :
                    i \in {j \in 1..Len(e.data) : ~IsNa(ParseYear(e.data[j].date))}}
                : e \in SeqRange(tinBefore.entities)}
    ELSE {<<r.series_id, YearOfObservation(tinBefore, r)>> :
             r \in {x \in SeqRange(tinBefore.rows) : ~IsNa(YearOfObservation(tinBefore, x))}}
CellsOfKey(k, y) ==
    IF tkind = "health"
    THEN HealthCells((CHOOSE e \in SeqRange(tinBefore.entities) : e.country_code = k).data, y)
    ELSE EconomicCells(tinBefore, tinBefore.rows, k, y)

\* C13: the output of each transform stage has exactly one row per grouping
\* key: no two rows share the same (entity, Year) after transform_health_data
\* or the same (series identifier, Year) after transform_economic_data, every
\* (key, Year) present in the usable input appears in the output, and each
\* numeric cell is the arithmetic mean of that group's non-missing input
\* values.
C13_OneRowPerKey ==
    (tpc = "returned" /\ tout.kind = "return" /\ ~tout.error) =>
        /\ \A r, q \in tout.table.rows : (r.key = q.key /\ r.Year = q.Year) => r = q
        /\ {<<r.key, r.Year>> : r \in tout.table.rows} = UsableKeys
        /\ \A r \in tout.table.rows : r.val = SeriesMean(CellsOfKey(r.key, r.Year))
\* the three records of an entity, two of 2020 on different days, one of them
\* without its cell, and one of 2021, came back as one row per year
C13_Witness ==
    /\ tpc = "returned"
    /\ tkind = "health"
    /\ tinBefore.entities =
           <<Entity("USA", <<[date |-> "2020-03-01", new_cases |-> 1],
                             [date |-> "2020-11-30", new_cases |-> 6],
                             [date |-> "2021-03-01", new_cases |-> NaN]>>)>>
    /\ tout.table.rows =
           {[key |-> "USA", Year |-> 2020, val |-> SeriesMean(<<1, 6>>)],
            [key |-> "USA", Year |-> 2021, val |-> NaN]}

\* the daily records of d whose date to_datetime parses
RECURSIVE ParseableRecords(_)
ParseableRecords(d) ==
    IF d = <<>> THEN <<>>
    ELSE IF IsNa(ParseYear(Head(d).date)) THEN ParseableRecords(Tail(d))
         ELSE <<Head(d)>> \o ParseableRecords(Tail(d))
\* the raw health table t without the records whose date does not parse
WithoutUnparseable(t) ==
    [t EXCEPT !.entities =
        [i \in 1..Len(t.entities) |->
            Entity(t.entities[i].country_code, ParseableRecords(t.entities[i].data))]]
\* every record of the entity e has a date that does not parse
AllUnparseable(e) ==
    /\ e.data # <<>>
    /\ ParseableRecords(e.data) = <<>>

\* C21: in transform_health_data a daily record whose date cannot be parsed
\* contributes to no output row: the output rows are those of the same table
\* without such records and each mean is taken over the records of its year
\* alone, no output row has a missing Year, and an entity whose records all
\* have unparseable dates does not appear in the output.
C21_UnparseableDatesDropped ==
    (tpc = "returned" /\ tkind = "health") =>
        /\ tout.table.rows = TransformHealthData(WithoutUnparseable(tinBefore)).table.rows
        /\ \A r \in tout.table.rows :
              /\ ~IsNa(r.Year)
              /\ \E e \in SeqRange(tinBefore.entities) :
                    /\ e.country_code = r.key
                    /\ ~AllUnparseable(e)
                    /\ r.val = SeriesMean(HealthCells(ParseableRecords(e.data), r.Year))
\* of the two records of USA the one dated "n/a" is left out of the mean of
\* 2020, and IND, whose only record is dated "n/a", has no row
C21_Witness ==
    /\ tpc = "returned"
    /\ tkind = "health"
    /\ tinBefore.entities =
           <<Entity("USA", <<[date |-> "2020-03-01", new_cases |-> 1],
                             [date |-> "n/a", new_cases |-> 6]>>),
             Entity("IND", <<[date |-> "n/a", new_cases |-> 6]>>)>>
    /\ tinBefore.keys = {"date", "new_cases"}
    /\ ~tout.error
    /\ tout.table.rows = {[key |-> "USA", Year |-> 2020, val |-> 1]}

(***************************************************************************)
(* SpecClean: a caller hands a value to clean_data: a table, or a value    *)
(* that is no table (None, a list).                                        *)
(***************************************************************************)
\* the lists of column names: 'a' keeps scalars, 'b' any kind of cell
NameLists ==
    {<<>>, <<"a">>, <<"b">>, <<"data">>, <<"a", "b">>, <<"a", "data">>, <<"b", "data">>,
     <<"b", "b">>, <<"data", "data">>, <<"a", "b", "data">>}
CellsOf(name) ==
    CASE name = "a" -> {"NaN", "1"}
      [] name = "b" -> {"NaN", "1", "[x]", "{k: v}", "{s}", "array"}
      [] name = "data" -> {"NaN", "[x]", "{k: v}"}
RowsOf(ns) ==
    {r \in [1..Len(ns) -> UNION {CellsOf(n) : n \in SeqRange(ns)}] :
        \A i \in 1..Len(ns) : r[i] \in CellsOf(ns[i])}
NotATable == [isTable |-> FALSE, names |-> <<>>, rows |-> <<>>]

KInit ==
    /\ \/ raw = NotATable
       \/ \E ns \in NameLists : \E n \in 0..MaxCleanRows : \E rs \in [1..n -> RowsOf(ns)] :
             raw = [isTable |-> TRUE, names |-> ns, rows |-> rs]
    /\ cleaned = NotCalled
    /\ kfailed = FALSE
    /\ kpc = "start"

\* clean_data(df)
CleanDataCall ==
    /\ kpc = "start"
    /\ \E empty_subset \in {"raise", "keep"} :
          /\ cleaned' = CleanData(raw, empty_subset)
          /\ kfailed' = (CleanDataBody(raw, empty_subset).kind = "raise")
    /\ kpc' = "returned"
    /\ UNCHANGED <<raw, nvars, cvars, avars, tvars>>

InitClean == KInit /\ NIdle /\ CIdle /\ AIdle /\ TIdle
SpecClean == InitClean /\ [][CleanDataCall]_vars

(***************************************************************************)
(* Claims about clean_data, checked under SpecClean.                       *)
(***************************************************************************)
RawColumns == 1..Len(raw.names)
RawRows == 1..Len(raw.rows)
OutNames == SeqRange(cleaned.table.names)
HasNestedCell(i) == \E r \in RawRows : raw.rows[r][i] \in Nested
OnlyScalarCells(i) == \A r \in RawRows : raw.rows[r][i] \in Scalars \cup {"NaN"}
UniqueName(i) == \A j \in RawColumns : raw.names[j] = raw.names[i] => j = i
\* no column of the output other than 'data' holds a list, a dict or a set
NoNestedLeft ==
    \A i \in 1..Len(cleaned.table.names) : \A r \in 1..Len(cleaned.table.rows) :
        cleaned.table.names[i] # "data" => cleaned.table.rows[r][i] \notin Nested

NoOtherUnhashable ==
    \A i \in RawColumns : \A r \in RawRows :
        raw.names[i] # "data" => raw.rows[r][i] # "array"

C15_NeverRaises ==
    kpc = "returned" =>
        /\ cleaned.kind = "return"
        /\ kfailed => (cleaned.table = EmptyDataFrame /\ cleaned.error)
\* the row de-duplication raised on a numpy array cell beside a scalar
\* column, and the empty table came back
C15_Witness ==
    /\ kpc = "returned"
    /\ raw.isTable
    /\ raw.names = <<"a", "b">>
    /\ raw.rows = << <<"1", "array">> >>
    /\ kfailed
    /\ cleaned = Returned(EmptyDataFrame, TRUE)

\* C20: after clean_data returns a non-empty table, the table has a 'data'
\* column and every cell of it is a list: cells that were absent or not a
\* list in the input are replaced by an empty list, and when the input had
\* no 'data' column one is created holding an empty list in every row.
C20_DataColumnOfLists ==
    (kpc = "returned" /\ cleaned.table.names # <<>>) =>
        LET out == cleaned.table
            d   == ColumnOf(out, "data")
        IN  /\ Cardinality({i \in 1..Len(out.names) : out.names[i] = "data"}) = 1
            /\ \A r \in 1..Len(out.rows) : out.rows[r][d] \in Lists
            /\ "data" \notin SeqRange(raw.names) =>
                   \A r \in 1..Len(out.rows) : out.rows[r][d] = "[]"
            /\ "data" \in SeqRange(raw.names) =>
                   \A r \in 1..Len(out.rows) : \E q \in RawRows :
                       out.rows[r][d] = AsList(raw.rows[q][ColumnOf(raw, "data")])
\* the dict cell of 'data' came back as an empty list, the list cell as it was
C20_Witness ==
    /\ kpc = "returned"
    /\ raw.names = <<"a", "data">>
    /\ raw.rows = << <<"1", "{k: v}">>, <<"NaN", "[x]">> >>
    /\ cleaned.table = [names |-> <<"a", "data">>,
                        rows |-> << <<"1", "[]">>, <<"NaN", "[x]">> >>]

(***************************************************************************)
(* SpecFailSoft: one of the stages downstream of clean_data is called, on  *)
(* a table that may be the empty one a failed stage hands on.              *)
(***************************************************************************)
\* a script calls train_economic_model on two tables, as test_model_training.py
TrainInit ==
    /\ store = [c \in IndicatorCodes |-> NoModel]
    /\ trainSeq = 0
    /\ trainedCodes = {}
    /\ health_filtered \in AppHealthTables \cup {EmptyFrame}
    /\ prediction_economic_filtered \in AppEconomicTables \cup {EmptyFrame}
    /\ code \in IndicatorCodes
    /\ model = NoModel
    /\ trainResult = "not_called"
    /\ storeBefore = store
    /\ predictCall = "not_called"
    /\ sidebar = {}
    /\ pc = "train_call"

\* rmse, r2 = train_economic_model(health_df, economic_df, 'value', indicator_code)
TrainEconomicModelCall ==
    /\ pc = "train_call"
    /\ LET r == TrainEconomicModel(health_filtered, prediction_economic_filtered,
                                   "value", code, store, trainSeq)
       IN  /\ store' = r.store
           /\ trainSeq' = IF r.ok THEN trainSeq + 1 ELSE trainSeq
           /\ trainedCodes' = IF r.ok THEN trainedCodes \cup {code} ELSE trainedCodes
           /\ trainResult' = IF r.ok THEN "ok" ELSE "failed"
    /\ pc' = "returned"
    /\ UNCHANGED <<health_filtered, prediction_economic_filtered, code, model, storeBefore,
                   predictCall, sidebar, nvars, cvars, tvars, kvars>>

InitFailSoft ==
    \/ NInit /\ CIdle /\ AIdle /\ TIdle /\ KIdle
    \/ CInit /\ NIdle /\ AIdle /\ TIdle /\ KIdle
    \/ TInit /\ NIdle /\ CIdle /\ AIdle /\ KIdle
    \/ TrainInit /\ NIdle /\ CIdle /\ TIdle /\ KIdle
NextFailSoft ==
    \/ TransformHealthDataCall
    \/ TransformEconomicDataCall
    \/ NormalizeDataCall
    \/ CalculateCorrelationCall
    \/ TrainEconomicModelCall
SpecFailSoft == InitFailSoft /\ [][NextFailSoft]_vars

\* the table has no row (pd.DataFrame() has no column either)
NoRows(t) == t.rows = {}
NoCells(t) == \A c \in DOMAIN t : t[c] = <<>>

\* C16: fail-soft chain: each of transform_health_data,
\* transform_economic_data, normalize_data, calculate_correlation and
\* train_economic_model, when given an empty table, returns an empty table or
\* the absent result (None, or (None, None)) and lets no exception propagate
\* to its caller.
C16_FailSoft ==
    /\ (tpc = "returned" /\ tkind = "health" /\ tinBefore.entities = <<>>) =>
           (tout.kind = "return" /\ NoRows(tout.table))
    /\ (tpc = "returned" /\ tkind = "economic" /\ tinBefore.rows = <<>>) =>
           (tout.kind = "return" /\ NoRows(tout.table))
    /\ (npc = "returned" /\ NoCells(dfBefore)) => NoCells(normOut)
    /\ (cpc = "returned" /\ (NoRows(health_df) \/ NoRows(economic_df))) =>
           correlation = None
    /\ (/\ pc = "returned"
        /\ NoRows(health_filtered) \/ NoRows(prediction_economic_filtered)) =>
           (trainResult = "failed" /\ store = storeBefore)
\* train_economic_model was handed pd.DataFrame() for the health table and an
\* economic table of three rows, and returned (None, None)
C16_Witness ==
    /\ pc = "returned"
    /\ health_filtered = EmptyFrame
    /\ Cardinality(prediction_economic_filtered.rows) = 3
    /\ trainResult = "failed"

====
